---- MODULE Spec2Model ----
(***************************************************************************)
(* A model of the Chest-Item-Locator extraction pipeline:                  *)
(*   chest_locator.py  - NBTReader, read_region_file, the chunk adapter,   *)
(*                       the storage classifier, normalize_storage and     *)
(*                       the Postgres upsert;                              *)
(*   anvil_parser.py   - is_storage_block, is_valid_storage, the nested    *)
(*                       container flattener, get_all_storages and the     *)
(*                       bulk insert.                                      *)
(* Strings that the code inspects (identities) are sequences of one-letter *)
(* strings; mapping keys, which the code only compares, are TLA+ strings.  *)
(* A decoded value is a record [t, v]: t is its type, v its payload.       *)
(* The byte-level decoder keeps a string as the sequence of its code       *)
(* points. Each part of the program has its own specification over the     *)
(* shared variables: SpecExtract, SpecRegion, SpecDecoder, SpecAdapter,    *)
(* SpecDb; the variables of the other parts stay at their idle values.     *)
(***************************************************************************)
EXTENDS Integers, Sequences, FiniteSets, TLC

VARIABLES
    chunk,          \* extraction: the block entities of the chunk being scanned
    variant,        \* extraction: which scanner ran ("none" before it runs)
    scan,           \* extraction: what the scanner produced
    header,         \* region file: how many bytes the file has for its header
    slots,          \* region file: per slot, what the file holds there
    chunk_i,        \* region file: the slot index the loop is at
    results,        \* region file: read_region_file's result list so far
    rpc,            \* region file: position of read_region_file's loop
    buf,            \* decoder: the byte buffer handed to NBTReader
    nbt,            \* decoder: what parse_root produced
    sread,          \* decoder: what read_string produced, and where it left the reader
    doc,            \* adapter: the root mapping of a decoded document
    apc,            \* adapter: whether get_block_entities_from_chunk_nbt has run
    block_entities, \* adapter: what get_block_entities_from_chunk_nbt returned
    storages,       \* database: the rows of table storages
    storage_items,  \* database: the rows of table storage_items
    next_id,        \* database: the next value of the storage_id sequence
    dbpc,           \* database: which program writes, and where anvil_parser.main is
    first_id,       \* history: the storage_id first given to each coordinate
    last_items,     \* history: the items of the latest extraction of each coordinate
    pending,        \* file run: the storages of the region file, and which upserts raise
    file_k,         \* file run: the storage process_region_file is at
    count_saved,    \* file run: process_region_file's count_saved
    committed,      \* file run: the tables as of the last commit
    fpc             \* file run: position of process_region_file

vars == <<chunk, variant, scan, header, slots, chunk_i, results, rpc, buf, nbt, sread,
          doc, apc,
          block_entities, storages, storage_items, next_id, dbpc, first_id, last_items,
          pending, file_k, count_saved, committed, fpc>>

extractVars == <<chunk, variant, scan>>
regionVars == <<header, slots, chunk_i, results, rpc>>
decoderVars == <<buf, nbt, sread>>
adapterVars == <<doc, apc, block_entities>>
dbVars == <<storages, storage_items, next_id, dbpc, first_id, last_items>>
fileVars == <<pending, file_k, count_saved, committed, fpc>>

(***************************************************************************)
(* Values                                                                  *)
(***************************************************************************)
None == [t |-> "none", v |-> 0]
I(n) == [t |-> "int", v |-> n]
S(chars) == [t |-> "str", v |-> chars]
L(seq) == [t |-> "list", v |-> seq]
M(f) == [t |-> "map", v |-> f]

EmptyMap == [k \in {} |-> None]

\* dict.get(key) of a Python dict, and TAG_Compound.get(key) of the nbt library.
Get(d, key) == IF d.t = "map" /\ key \in DOMAIN d.v THEN d.v[key] ELSE None

\* Python truth value of a native value (what NBTReader builds).
PyTruthy(val) ==
    CASE val.t = "none" -> FALSE
      [] val.t = "int" -> val.v # 0
      [] val.t = "str" -> Len(val.v) > 0
      [] val.t = "list" -> Len(val.v) > 0
      [] val.t = "map" -> DOMAIN val.v # {}
      [] OTHER -> TRUE

\* Python truth value of a tag object of the nbt library (what anvil's
\* Region.chunk_data returns): numeric tags define neither __bool__ nor
\* __len__, string, list and compound tags define __len__.
TagTruthy(val) ==
    CASE val.t = "none" -> FALSE
      [] val.t = "int" -> TRUE
      [] val.t = "str" -> Len(val.v) > 0
      [] val.t = "list" -> Len(val.v) > 0
      [] val.t = "map" -> DOMAIN val.v # {}
      [] OTHER -> TRUE

\* a or b
PyOr(a, b) == IF PyTruthy(a) THEN a ELSE b
TagOr(a, b) == IF TagTruthy(a) THEN a ELSE b

(***************************************************************************)
(* Strings                                                                 *)
(***************************************************************************)
UpperToLower ==
    [c \in {"A", "B", "C", "D", "E", "F", "G", "H", "I", "J", "K", "L", "M", "N",
            "O", "P", "Q", "R", "S", "T", "U", "V", "W", "X", "Y", "Z"} |->
        CASE c = "A" -> "a" [] c = "B" -> "b" [] c = "C" -> "c" [] c = "D" -> "d"
          [] c = "E" -> "e" [] c = "F" -> "f" [] c = "G" -> "g" [] c = "H" -> "h"
          [] c = "I" -> "i" [] c = "J" -> "j" [] c = "K" -> "k" [] c = "L" -> "l"
          [] c = "M" -> "m" [] c = "N" -> "n" [] c = "O" -> "o" [] c = "P" -> "p"
          [] c = "Q" -> "q" [] c = "R" -> "r" [] c = "S" -> "s" [] c = "T" -> "t"
          [] c = "U" -> "u" [] c = "V" -> "v" [] c = "W" -> "w" [] c = "X" -> "x"
          [] c = "Y" -> "y" [] c = "Z" -> "z"]

\* str.lower()
Lower(s) == [k \in 1..Len(s) |-> IF s[k] \in DOMAIN UpperToLower THEN UpperToLower[s[k]] ELSE s[k]]

\* s.startswith(p)
StartsWith(s, p) == Len(p) <= Len(s) /\ SubSeq(s, 1, Len(p)) = p

\* s.endswith(p)
EndsWith(s, p) == Len(p) <= Len(s) /\ SubSeq(s, Len(s) - Len(p) + 1, Len(s)) = p

\* c in s, for a single character c
HasChar(s, c) == \E k \in 1..Len(s) : s[k] = c

\* s.find(sep): the first index (1-based) at which sep occurs in s, 0 if none
Find(s, sep) ==
    LET hits == {k \in 1..(Len(s) - Len(sep) + 1) : SubSeq(s, k, k + Len(sep) - 1) = sep}
    IN IF hits = {} THEN 0 ELSE CHOOSE k \in hits : \A j \in hits : k <= j

\* s.split(sep): the list of the pieces of s between the occurrences of sep
RECURSIVE Split(_, _)
Split(s, sep) ==
    LET k == Find(s, sep)
    IN IF k = 0 THEN <<s>>
       ELSE <<SubSeq(s, 1, k - 1)>> \o Split(SubSeq(s, k + Len(sep), Len(s)), sep)

MC == <<"m", "i", "n", "e", "c", "r", "a", "f", "t", ":">>
W_chest == <<"c", "h", "e", "s", "t">>
W_trapped_chest == <<"t", "r", "a", "p", "p", "e", "d", "_">> \o W_chest
W_barrel == <<"b", "a", "r", "r", "e", "l">>
W_shulker_box == <<"s", "h", "u", "l", "k", "e", "r", "_", "b", "o", "x">>
W_dispenser == <<"d", "i", "s", "p", "e", "n", "s", "e", "r">>
W_dropper == <<"d", "r", "o", "p", "p", "e", "r">>
W_hopper == <<"h", "o", "p", "p", "e", "r">>
W_furnace == <<"f", "u", "r", "n", "a", "c", "e">>
W_blast_furnace == <<"b", "l", "a", "s", "t", "_">> \o W_furnace
W_smoker == <<"s", "m", "o", "k", "e", "r">>
W_chiseled_bookshelf == <<"c", "h", "i", "s", "e", "l", "e", "d", "_", "b", "o", "o", "k", "s", "h", "e", "l", "f">>
W_decorated_pot == <<"d", "e", "c", "o", "r", "a", "t", "e", "d", "_", "p", "o", "t">>
W_brewing_stand == <<"b", "r", "e", "w", "i", "n", "g", "_", "s", "t", "a", "n", "d">>
W_lectern == <<"l", "e", "c", "t", "e", "r", "n">>
W_crafter == <<"c", "r", "a", "f", "t", "e", "r">>
W_shelf == <<"s", "h", "e", "l", "f">>
W_diamond == <<"d", "i", "a", "m", "o", "n", "d">>
W_stone == <<"s", "t", "o", "n", "e">>
W_bundle == <<"b", "u", "n", "d", "l", "e">>

\* chest_locator.py STORAGE_IDS
STORAGE_IDS ==
    {MC \o w : w \in {W_chest, W_trapped_chest, W_barrel, W_shulker_box, W_dispenser,
                      W_dropper, W_hopper, W_furnace, W_blast_furnace, W_smoker}}

\* anvil_parser.py STORAGE_BASE_TYPES
STORAGE_BASE_TYPES ==
    {MC \o w : w \in {W_chest, W_trapped_chest, W_barrel, W_shulker_box, W_dispenser,
                      W_dropper, W_hopper, W_furnace, W_blast_furnace, W_smoker,
                      W_chiseled_bookshelf, W_decorated_pot, W_brewing_stand,
                      W_lectern, W_crafter, W_shelf}}

\* anvil_parser.py STORAGE_PATTERNS[0].match(s): re.match anchors at the start,
\* "." matches any character but a newline, "$" matches at the end of the string
\* and before a newline that ends it.
ShulkerPatternMatch(s) ==
    LET tail == <<"_">> \o W_shulker_box
        body == IF Len(s) > 0 /\ s[Len(s)] = "\n" THEN {s, SubSeq(s, 1, Len(s) - 1)} ELSE {s}
    IN \E b \in body :
          /\ StartsWith(b, MC)
          /\ EndsWith(b, tail)
          /\ Len(b) >= Len(MC) + 1 + Len(tail)
          /\ ~HasChar(SubSeq(b, Len(MC) + 1, Len(b) - Len(tail)), "\n")

(***************************************************************************)
(* Storage classifier                                                      *)
(***************************************************************************)
\* chest_locator.py is_storage_entity_id
is_storage_entity_id(beid) ==
    IF beid.t # "str" THEN FALSE
    ELSE LET beid_low == Lower(beid.v)
         IN IF HasChar(beid_low, ":")
            THEN \E s \in STORAGE_IDS : StartsWith(beid_low, s)
            ELSE (MC \o beid_low) \in STORAGE_IDS

\* a variant of should_save_storage that tests the loot table first
M_should_save_storage(be) == "LootTable" \notin DOMAIN be.v

\* chest_locator.py should_save_storage
should_save_storage(be) ==
    IF "Items" \in DOMAIN be.v \/ "items" \in DOMAIN be.v THEN TRUE
    ELSE IF "LootTable" \in DOMAIN be.v /\ "Items" \notin DOMAIN be.v /\ "items" \notin DOMAIN be.v
         THEN FALSE
         ELSE TRUE

\* anvil_parser.py is_storage_block (block_id is the str value of the id tag)
is_storage_block(block_id) ==
    IF block_id \in STORAGE_BASE_TYPES THEN TRUE
    ELSE ShulkerPatternMatch(block_id)

\* anvil_parser.py is_valid_storage
is_valid_storage(keys) ==
    IF "Items" \in keys \/ "items" \in keys THEN TRUE
    ELSE IF "LootTable" \in keys /\ "Items" \notin keys /\ "items" \notin keys
         THEN FALSE
         ELSE TRUE

\* anvil_parser.py trim_id
trim_id(item_id) == LET parts == Split(item_id, MC) IN parts[Len(parts)]

(***************************************************************************)
(* Results of operations that can raise                                    *)
(***************************************************************************)
Ok(val) == [ok |-> TRUE, val |-> val, err |-> ""]
Err(e) == [ok |-> FALSE, val |-> None, err |-> e]

Digits == [c \in {"0", "1", "2", "3", "4", "5", "6", "7", "8", "9"} |->
             CASE c = "0" -> 0 [] c = "1" -> 1 [] c = "2" -> 2 [] c = "3" -> 3 [] c = "4" -> 4
               [] c = "5" -> 5 [] c = "6" -> 6 [] c = "7" -> 7 [] c = "8" -> 8 [] c = "9" -> 9]

RECURSIVE DigitsValue(_)
DigitsValue(s) == IF Len(s) = 0 THEN 0 ELSE 10 * DigitsValue(SubSeq(s, 1, Len(s) - 1)) + Digits[s[Len(s)]]

\* int(val): an int is itself, a string of decimal digits (with an optional sign)
\* is its value, any other string raises ValueError, a list or a dict TypeError.
PyInt(val) ==
    CASE val.t = "int" -> Ok(val.v)
      [] val.t = "str" ->
            LET neg == Len(val.v) > 0 /\ val.v[1] = "-"
                body == IF neg THEN SubSeq(val.v, 2, Len(val.v)) ELSE val.v
            IN IF Len(body) > 0 /\ \A k \in 1..Len(body) : body[k] \in DOMAIN Digits
               THEN Ok(IF neg THEN 0 - DigitsValue(body) ELSE DigitsValue(body))
               ELSE Err("ValueError")
      [] OTHER -> Err("TypeError")

\* os.path.basename(path) / file.split("/")[-1]: a path is the sequence of its components
Basename(path) == path[Len(path)]

(***************************************************************************)
(* chest_locator.py: normalize_storage                                     *)
(***************************************************************************)
\* lines 208-213: the count of one item stack
LocatorCount(it) ==
    LET cnt == PyOr(PyOr(Get(it, "Count"), Get(it, "count")), I(0))
        r == PyInt(cnt)
    IN IF r.ok THEN r.val ELSE 0

\* line 216: the slot of one item stack
LocatorSlot(it) == IF Get(it, "Slot").t = "int" THEN Get(it, "Slot") ELSE None

\* a variant of LocatorItemId that keeps the namespace
M_LocatorItemId(raw_id) == raw_id

\* lines 200-206: the cleaned identity of one item stack, given its truthy raw id
LocatorItemId(raw_id) ==
    IF StartsWith(raw_id, MC) THEN Split(raw_id, MC)[2] ELSE raw_id

\* lines 219-226: the display name of one item stack
LocatorDisplayName(it, item_id) ==
    LET tag == PyOr(Get(it, "tag"), M(EmptyMap))
    IN IF tag.t # "map" THEN Ok(S(item_id))
       ELSE LET display == PyOr(Get(tag, "display"), M(EmptyMap))
            IN IF display.t # "map" THEN Err("AttributeError")
               ELSE IF PyTruthy(Get(display, "Name")) THEN Ok(Get(display, "Name"))
                    ELSE Ok(S(item_id))

\* lines 195-234: the loop over items_raw from its k-th element, items being the list so far
RECURSIVE LocatorItems(_, _, _)
LocatorItems(items_raw, k, items) ==
    IF k > Len(items_raw) THEN Ok(items)
    ELSE LET it == items_raw[k]
             raw_id == PyOr(PyOr(Get(it, "id"), Get(it, "Name")), S(<<>>))
         IN IF it.t # "map" THEN LocatorItems(items_raw, k + 1, items)
            ELSE IF ~PyTruthy(raw_id) THEN LocatorItems(items_raw, k + 1, items)
            ELSE IF raw_id.t # "str" THEN Err("AttributeError")
            ELSE LET item_id == LocatorItemId(raw_id.v)
                     dn == LocatorDisplayName(it, item_id)
                 IN IF ~dn.ok THEN dn
                    ELSE LocatorItems(items_raw, k + 1,
                            Append(items, [slot |-> LocatorSlot(it),
                                           item_id |-> item_id,
                                           count |-> LocatorCount(it),
                                           display_name |-> dn.val,
                                           raw |-> it]))

\* what "for it in items_raw" iterates over: the elements of a list, the characters
\* of a string, the keys of a dict (none of them a dict); an int is not iterable.
PyIter(val) ==
    CASE val.t = "list" -> Ok(val.v)
      [] val.t = "str" -> Ok([k \in 1..Len(val.v) |-> S(<<val.v[k]>>)])
      [] val.t = "map" -> Ok([k \in 1..Cardinality(DOMAIN val.v) |-> S(<<>>)])
      [] OTHER -> Err("TypeError")

\* lines 189-191: one coordinate
LocatorCoord(be, a, b, c) == PyInt(PyOr(PyOr(PyOr(Get(be, a), Get(be, b)), Get(be, c)), I(0)))

\* lines 187-243
normalize_storage(be, region_file, chunk_index) ==
    LET be_id == PyOr(PyOr(PyOr(Get(be, "id"), Get(be, "Id")), Get(be, "ID")), S(<<>>))
        x == LocatorCoord(be, "x", "X", "posX")
        y == LocatorCoord(be, "y", "Y", "posY")
        z == LocatorCoord(be, "z", "Z", "posZ")
        items_raw == PyIter(PyOr(PyOr(Get(be, "Items"), Get(be, "items")), L(<<>>)))
        items == IF items_raw.ok THEN LocatorItems(items_raw.val, 1, <<>>) ELSE items_raw
    IN IF ~x.ok THEN x
       ELSE IF ~y.ok THEN y
       ELSE IF ~z.ok THEN z
       ELSE IF ~items.ok THEN items
       ELSE Ok([region_file |-> Basename(region_file),
                chunk_index |-> chunk_index,
                entity_id |-> be_id,
                x |-> x.val, y |-> y.val, z |-> z.val,
                items |-> items.val,
                raw_nbt |-> be])

\* process_region_file lines 291-299 without the upsert: the records of the block
\* entities bes from the k-th on, acc being the records so far; normalize_storage
\* is outside the try, so what it raises ends the scan.
RECURSIVE LocatorScan(_, _, _, _, _)
LocatorScan(bes, k, path, chunk_index, acc) ==
    IF k > Len(bes) THEN Ok(acc)
    ELSE LET be == bes[k]
             be_id == PyOr(PyOr(PyOr(Get(be, "id"), Get(be, "Id")), Get(be, "ID")), S(<<>>))
         IN IF ~is_storage_entity_id(be_id) THEN LocatorScan(bes, k + 1, path, chunk_index, acc)
            ELSE IF ~should_save_storage(be) THEN LocatorScan(bes, k + 1, path, chunk_index, acc)
            ELSE LET normalized == normalize_storage(be, path, chunk_index)
                 IN IF ~normalized.ok THEN normalized
                    ELSE LocatorScan(bes, k + 1, path, chunk_index, Append(acc, normalized.val))

(***************************************************************************)
(* anvil_parser.py: the nested container flattener and get_all_storages    *)
(***************************************************************************)
\* tag.value: raises AttributeError on None (a key that is absent)
Value(tag) == IF tag.t = "none" THEN Err("AttributeError") ELSE Ok(tag)

\* the entry that item_json.append(get_sub_storage_contents(...)) adds: the
\* function has no return statement, so the appended value is None
NoneEntry == [kind |-> "None", id |-> <<>>, count |-> None, slot |-> None, display_name |-> <<>>]

\* lines 69-74 and 126-131: the dict appended for one stack, from its tags
ItemEntry(item_id, count, slot) ==
    IF item_id.t = "none" \/ count.t = "none" \/ slot.t = "none" THEN Err("AttributeError")
    ELSE IF item_id.t # "str" THEN Err("AttributeError")
    ELSE Ok([kind |-> "item", id |-> trim_id(item_id.v), count |-> count, slot |-> slot,
             display_name |-> item_id.v])

\* a variant of SubSlot that tests the slot's number, not the tag
M_SubSlot(item, slot_prepend) ==
    LET slot == TagOr(Get(item, "slot"), Get(item, "Slot"))
    IN IF PyTruthy(slot)
       THEN IF slot.t = "int" THEN Ok(I(slot_prepend + slot.v * (0 - 1))) ELSE Err("TypeError")
       ELSE Ok(I(0 - 1))

\* lines 56-60: the flattened slot of a stack inside a nested container
SubSlot(item, slot_prepend) ==
    LET slot == TagOr(Get(item, "slot"), Get(item, "Slot"))
    IN IF TagTruthy(slot)
       THEN IF slot.t = "int" THEN Ok(I(slot_prepend + slot.v * (0 - 1))) ELSE Err("TypeError")
       ELSE Ok(I(0 - 1))

\* lines 76-84 and 133-141: the nested container of a stack, None when it has none
FindContainer(item) ==
    LET components == TagOr(Get(item, "components"), Get(item, "Components"))
    IN IF ~TagTruthy(components) THEN Ok(None)
       ELSE IF components.t # "map" THEN Err("AttributeError")
       ELSE Ok(TagOr(TagOr(TagOr(Get(components, "minecraft:container"),
                                 Get(components, "container")),
                           Get(components, "minecraft:bundle_contents")),
                     Get(components, "bundle_contents")))

\* line 86: the slot_prepend handed to the recursive call; sub_count is set to 0
\* at the top of every iteration of the loop (line 54) and incremented on line 85
SubBase(slot_prepend) ==
    LET sub_count == 0 + 1
    IN slot_prepend + sub_count * (0 - 1000)

\* line 143: the slot_prepend of a container found among the storage's own stacks
TopBase(sub_count) == sub_count * (0 - 10000)

\* lines 50-86: the loop over container from its k-th element; item_json is the
\* shared accumulator. The recursive call appends the nested items to item_json
\* and the caller then appends the call's return value, None.
RECURSIVE get_sub_storage_contents(_, _, _, _)
get_sub_storage_contents(container, k, slot_prepend, item_json) ==
    IF container.t # "list" THEN Err("TypeError")
    ELSE IF k > Len(container.v) THEN Ok(item_json)
    ELSE LET item == container.v[k]
             slot == SubSlot(item, slot_prepend)
             inner == Get(item, "item")
             src == IF TagTruthy(inner) THEN inner ELSE item
             count == TagOr(Get(src, "Count"), Get(src, "count"))
             item_id == TagOr(TagOr(Get(src, "id"), Get(src, "Id")), Get(src, "ID"))
             entry == ItemEntry(item_id, count, IF slot.ok THEN slot.val ELSE I(0))
             found == FindContainer(item)
         IN IF item.t # "map" THEN Err("AttributeError")
            ELSE IF ~slot.ok THEN slot
            ELSE IF TagTruthy(inner) /\ inner.t # "map" THEN Err("AttributeError")
            ELSE IF ~entry.ok THEN entry
            ELSE IF ~found.ok THEN found
            ELSE IF ~TagTruthy(found.val)
                 THEN get_sub_storage_contents(container, k + 1, slot_prepend,
                                               Append(item_json, entry.val))
                 ELSE LET nested == get_sub_storage_contents(found.val, 1, SubBase(slot_prepend),
                                                             Append(item_json, entry.val))
                      IN IF ~nested.ok THEN nested
                         ELSE get_sub_storage_contents(container, k + 1, slot_prepend,
                                                       Append(nested.val, NoneEntry))

\* lines 121-143: the loop over items_tag from its k-th element; sub_count counts
\* the nested containers met so far among the storage's own stacks
RECURSIVE AnvilItems(_, _, _, _)
AnvilItems(items_tag, k, sub_count, items) ==
    IF k > Len(items_tag) THEN Ok(items)
    ELSE LET item == items_tag[k]
             count == TagOr(Get(item, "Count"), Get(item, "count"))
             slot == TagOr(Get(item, "Slot"), Get(item, "slot"))
             item_id == TagOr(TagOr(Get(item, "id"), Get(item, "Id")), Get(item, "ID"))
             entry == ItemEntry(item_id, count, slot)
             found == FindContainer(item)
         IN IF item.t # "map" THEN Err("AttributeError")
            ELSE IF ~entry.ok THEN entry
            ELSE IF ~found.ok THEN found
            ELSE IF ~TagTruthy(found.val)
                 THEN AnvilItems(items_tag, k + 1, sub_count, Append(items, entry.val))
                 ELSE LET nested == get_sub_storage_contents(found.val, 1, TopBase(sub_count + 1),
                                                             Append(items, entry.val))
                      IN IF ~nested.ok THEN nested
                         ELSE AnvilItems(items_tag, k + 1, sub_count + 1, nested.val)

\* line 147: the storage type of the record
AnvilEntityId(entity_id) == trim_id(entity_id)

\* lines 108-155: the loop over block_entities from its k-th element, for the
\* chunk at (x, z) of region file `file`; region_data is the list so far. Nothing
\* in get_all_storages catches what an entity raises.
RECURSIVE AnvilScan(_, _, _, _, _, _)
AnvilScan(bes, k, file, x, z, region_data) ==
    IF k > Len(bes) THEN Ok(region_data)
    ELSE LET entity == bes[k]
             id_tag == Value(Get(entity, "id"))
             items_tag == TagOr(TagOr(Get(entity, "Items"), Get(entity, "items")), L(<<>>))
             items == IF items_tag.t = "list" THEN AnvilItems(items_tag.v, 1, 0, <<>>)
                      ELSE Err("TypeError")
             ex == Value(Get(entity, "x"))
             ey == Value(Get(entity, "y"))
             ez == Value(Get(entity, "z"))
         IN IF ~id_tag.ok THEN id_tag
            ELSE IF id_tag.val.t # "str" THEN Err("TypeError")
            ELSE IF ~is_storage_block(id_tag.val.v) THEN AnvilScan(bes, k + 1, file, x, z, region_data)
            ELSE IF ~is_valid_storage(DOMAIN entity.v) THEN AnvilScan(bes, k + 1, file, x, z, region_data)
            ELSE IF ~items.ok THEN items
            ELSE IF ~ex.ok THEN ex
            ELSE IF ~ey.ok THEN ey
            ELSE IF ~ez.ok THEN ez
            ELSE AnvilScan(bes, k + 1, file, x, z,
                    Append(region_data,
                           [entity_id |-> AnvilEntityId(id_tag.val.v),
                            x |-> ex.val, y |-> ey.val, z |-> ez.val,
                            items |-> items.val,
                            region_file |-> Basename(file),
                            chunk_relative_pos |-> <<x, z>>,
                            chunk_index |-> x * 32 + z]))

(***************************************************************************)
(* Extraction: the chunks the scanners are run on                          *)
(***************************************************************************)
\* bounds of the inputs
MaxPlain == 2
MaxStacks == 5

\* where the chunk sits: region/r.0.0.mca, chunk (1, 2)
RegionPath == <<"region", "r.0.0.mca">>
ChunkPos == <<1, 2>>

W_plate == <<"p", "l", "a", "t", "e">>
W_blue == <<"b", "l", "u", "e", "_">>

\* identities the classifier is tried on
IdInputs ==
    LET namespaces == {<<>>, MC, <<"M", "i", "n", "e", "c", "r", "a", "f", "t", ":">>,
                       <<"m", "o", "d", ":">>}
        paths == {W_chest, W_chest \o W_plate, W_barrel, W_shulker_box, W_blue \o W_shulker_box,
                  <<"_">> \o W_shulker_box, W_lectern, W_diamond, <<"C", "H", "E", "S", "T">>,
                  <<"B", "l", "u", "e", "_">> \o W_shulker_box}
    IN {S(n \o q) : n \in namespaces, q \in paths}
       \cup {S(MC \o W_blue \o W_shulker_box \o <<"\n">>), S(<<>>), I(5), None}

\* one stack with the usual keys
PlainStack(id, count, slot) == M([id |-> S(id), Count |-> I(count), Slot |-> I(slot)])

\* a block entity with identity idv (None: no id key), the keys in extra beside
\* its position, and the given item list under both item-list keys
Entity(idv, extra, items) ==
    M([k \in ({"x", "y", "z"} \cup extra \cup (IF idv.t = "none" THEN {} ELSE {"id"})) |->
        CASE k = "id" -> idv
          [] k = "x" -> I(1)
          [] k = "y" -> I(64)
          [] k = "z" -> I(0 - 3)
          [] k = "Items" -> items
          [] k = "items" -> items
          [] k = "LootTable" -> S(<<"l", "o", "o", "t">>)
          [] OTHER -> S(<<"k">>)])

\* the content keys a block entity may carry beside its identity and position
ContentKeys == {"Items", "items", "LootTable", "Lock"}

\* a chunk with one block entity of the given identity and content keys
ClassifyChunk(idv, extra) == <<Entity(idv, extra, L(<<PlainStack(MC \o W_diamond, 5, 0)>>))>>

\* a chunk with an ungenerated barrel followed by a chest
TwoEntityChunk ==
    <<Entity(S(MC \o W_barrel), {"LootTable"}, L(<<>>)),
      Entity(S(MC \o W_chest), {"Items"}, L(<<PlainStack(MC \o W_diamond, 5, 0)>>))>>

\* the stacks tried in an item list: identity with and without the namespace,
\* count and slot present, absent or of another type
StackChoices ==
    {<<id, c, sk>> : id \in {MC \o W_diamond, W_stone},
                     c \in {"Count5", "count3", "Count0", "absent", "CountAbc", "Count7"},
                     sk \in {"Slot", "absent", "SlotStr"}}

\* the stack of choice ch at position k (from 1) of its list; its slot is k - 1
MakeStack(ch, k) ==
    M([f \in ({"id"} \cup (IF ch[2] = "absent" THEN {} ELSE IF ch[2] = "count3" THEN {"count"} ELSE {"Count"})
                     \cup (IF ch[3] = "absent" THEN {} ELSE {"Slot"})) |->
        CASE f = "id" -> S(ch[1])
          [] f = "count" -> I(3)
          [] f = "Count" -> (CASE ch[2] = "Count5" -> I(5)
                               [] ch[2] = "Count0" -> I(0)
                               [] ch[2] = "CountAbc" -> S(<<"a", "b", "c">>)
                               [] OTHER -> S(<<"7">>))
          [] OTHER -> IF ch[3] = "Slot" THEN I(k - 1) ELSE S(<<"x">>)])

\* a chunk with one chest holding the stacks picked
AssemblyChunk(pick) ==
    <<Entity(S(MC \o W_chest), {"Items"}, L([k \in DOMAIN pick |-> MakeStack(pick[k], k)]))>>

\* Trees of stacks. The stacks are numbered 1..n; parent[i] < i is the stack whose
\* nested container holds stack i, 0 for a stack of the storage itself. Forms of a
\* stack: "top" (a stack of the storage: id, count, Slot), "flat" (id, count,
\* slot), "noslot" (id, count: an entry of bundle contents) and "wrapped"
\* ([slot, item: [id, count]]: an entry of a container component).
NestedForms == {"flat", "noslot", "wrapped"}

ParentVectors(n) == {p \in [1..n -> 0..(n - 1)] : \A i \in 1..n : p[i] < i}

\* the stacks whose parent is i, in increasing order
KidsOf(parent, i) ==
    LET ks == {j \in DOMAIN parent : parent[j] = i}
    IN [k \in 1..Cardinality(ks) |-> CHOOSE j \in ks : Cardinality({m \in ks : m < j}) = k - 1]

DigitChar == <<"1", "2", "3", "4", "5", "6", "7", "8", "9">>

\* the identity of the stack at the given path of positions: unique in the tree
NodeId(path) == MC \o <<"i">> \o path

\* the form of a stack at nesting depth d (0: a stack of the storage), forms
\* giving the form of the stacks at depth 1 and at depth 2 and more
FormAt(forms, d) == IF d = 0 THEN "top" ELSE IF d = 1 THEN forms[1] ELSE forms[2]

\* the value of stack i: idx is its position (from 1) in its list, which gives
\* its slot idx - 1; the children of a wrapped stack sit in item.components
RECURSIVE NodeValue(_, _, _, _, _, _)
NodeValue(parent, forms, i, path, idx, d) ==
    LET here == Append(path, DigitChar[idx])
        ks == KidsOf(parent, i)
        kids == [j \in 1..Len(ks) |-> NodeValue(parent, forms, ks[j], here, j, d + 1)]
        key == IF FormAt(forms, d + 1) = "noslot"
               THEN "minecraft:bundle_contents" ELSE "minecraft:container"
        comp == M([c \in {key} |-> L(kids)])
        core == [f \in ({"id", "count"} \cup (IF Len(ks) > 0 THEN {"components"} ELSE {})) |->
                    CASE f = "id" -> S(NodeId(here))
                      [] f = "count" -> I(1)
                      [] OTHER -> comp]
        form == FormAt(forms, d)
    IN CASE form = "top" -> M(core @@ ("Slot" :> I(idx - 1)))
         [] form = "flat" -> M(core @@ ("slot" :> I(idx - 1)))
         [] form = "noslot" -> M(core)
         [] OTHER -> M([slot |-> I(idx - 1), item |-> M(core)])

\* a chunk with one chest holding the tree of stacks given by parent and forms
NestedChunk(parent, forms) ==
    LET tops == KidsOf(parent, 0)
    IN <<Entity(S(MC \o W_chest), {"Items"},
                L([j \in 1..Len(tops) |-> NodeValue(parent, forms, tops[j], <<>>, j, 0)]))>>

(***************************************************************************)
(* Extraction: the two scanners                                            *)
(***************************************************************************)
IdleExtract == chunk = <<>> /\ variant = "none" /\ scan = Ok(<<>>)
IdleRegion == header = 0 /\ slots = <<>> /\ chunk_i = 0 /\ results = <<>> /\ rpc = "idle"
IdleDecoder ==
    /\ buf = <<>> /\ nbt = [ok |-> FALSE, val |-> None, err |-> "idle", ev |-> {}]
    /\ sread = [ok |-> FALSE, pos |-> 0, val |-> <<>>, err |-> "idle"]
IdleAdapter == doc = None /\ apc = "idle" /\ block_entities = <<>>
IdleDb ==
    /\ storages = {} /\ storage_items = <<>> /\ next_id = 1 /\ dbpc = "idle"
    /\ first_id = <<>> /\ last_items = <<>>

IdleFile ==
    /\ pending = <<>> /\ file_k = 0 /\ count_saved = 0 /\ fpc = "idle"
    /\ committed = [storages |-> {}, storage_items |-> <<>>]

InitExtract ==
    /\ \/ \E idv \in IdInputs, extra \in SUBSET ContentKeys : chunk = ClassifyChunk(idv, extra)
       \/ chunk = TwoEntityChunk
       \/ \E n \in 0..MaxPlain : \E pick \in [1..n -> StackChoices] : chunk = AssemblyChunk(pick)
       \/ \E n \in 1..MaxStacks : \E parent \in ParentVectors(n), forms \in [1..2 -> NestedForms] :
             chunk = NestedChunk(parent, forms)
    /\ variant = "none"
    /\ scan = Ok(<<>>)
    /\ IdleRegion /\ IdleDecoder /\ IdleAdapter /\ IdleDb /\ IdleFile

\* what a scan leaves behind: the records, or the error that ended it
Outcome(r) == [ok |-> r.ok, val |-> IF r.ok THEN r.val ELSE <<>>, err |-> r.err]

\* chest_locator.py process_region_file on the chunk, as far as the records
ScanLocator ==
    /\ variant = "none" /\ chunk # <<>>
    /\ variant' = "locator"
    /\ scan' = Outcome(LocatorScan(chunk, 1, RegionPath, ChunkPos[1] * 32 + ChunkPos[2], <<>>))
    /\ UNCHANGED <<chunk, regionVars, decoderVars, adapterVars, dbVars, fileVars>>

\* anvil_parser.py get_all_storages on the chunk
ScanAnvil ==
    /\ variant = "none" /\ chunk # <<>>
    /\ variant' = "anvil"
    /\ scan' = Outcome(AnvilScan(chunk, 1, RegionPath, ChunkPos[1], ChunkPos[2], <<>>))
    /\ UNCHANGED <<chunk, regionVars, decoderVars, adapterVars, dbVars, fileVars>>

NextExtract == ScanLocator \/ ScanAnvil

SpecExtract == InitExtract /\ [][NextExtract]_vars

(***************************************************************************)
(* Extraction: properties                                                  *)
(***************************************************************************)
\* the identity with the "minecraft:" namespace prefix removed
Strip(id) == IF StartsWith(id, MC) THEN SubSeq(id, Len(MC) + 1, Len(id)) ELSE id

\* the chunk holds one block entity and a scanner has run on it
ScannedOne == variant # "none" /\ Len(chunk) = 1

\* the type match of the scanner that ran accepts the block entity
TypeAccepted ==
    LET idv == Get(chunk[1], "id")
    IN IF variant = "locator" THEN is_storage_entity_id(idv)
       ELSE idv.t = "str" /\ is_storage_block(idv.v)

\* the generation-state rule: an item-list key, or no loot-table key
GenAccepted(keys) == "Items" \in keys \/ "items" \in keys \/ "LootTable" \notin keys

\* C1: a block entity that passes the type match yields a record exactly when it
\* carries an item-list key ('Items' or 'items') or carries no 'LootTable' key,
\* whatever other keys it has; so a barrel with a loot table and no item list
\* yields no record.
C1_GenerationState ==
    (ScannedOne /\ scan.ok /\ TypeAccepted)
        => Len(scan.val) = (IF GenAccepted(DOMAIN chunk[1].v) THEN 1 ELSE 0)

\* C1 witness: a barrel with a loot table and no item list was scanned and gave no record
C1_Witness ==
    /\ ScannedOne /\ variant = "anvil" /\ scan.ok /\ TypeAccepted
    /\ Get(chunk[1], "id") = S(MC \o W_barrel)
    /\ DOMAIN chunk[1].v \cap ContentKeys = {"LootTable", "Lock"}
    /\ Len(scan.val) = 0

\* the type match as specified: lower-cased, "minecraft:" prepended when there is
\* no namespace, equal to an allow-listed identity or ending in "_shulker_box"
SpecTypeMatch(id, allow) ==
    LET low == Lower(id)
        canon == IF HasChar(low, ":") THEN low ELSE MC \o low
    IN canon \in allow \/ EndsWith(canon, <<"_">> \o W_shulker_box)

\* C4: an identity is accepted by the type match if and only if, lower-cased and
\* with "minecraft:" prepended when it has no namespace, it equals an allow-listed
\* identity or ends in "_shulker_box" (the block entity has an item list, so the
\* record is there exactly when the type match accepts).
C4_TypeMatch ==
    (ScannedOne /\ scan.ok /\ Get(chunk[1], "id").t = "str" /\ "Items" \in DOMAIN chunk[1].v)
        => (Len(scan.val) = 1
              <=> SpecTypeMatch(Get(chunk[1], "id").v,
                                IF variant = "locator" THEN STORAGE_IDS ELSE STORAGE_BASE_TYPES))

\* the item list of the one block entity
ItemsOf == Get(chunk[1], "Items")

\* a plain stack: identity, integer Count and integer Slot, nothing else
IsPlain(st) ==
    /\ st.t = "map" /\ DOMAIN st.v = {"id", "Count", "Slot"}
    /\ st.v["id"].t = "str" /\ st.v["Count"].t = "int" /\ st.v["Slot"].t = "int"

\* the chunk holds one accepted storage whose stacks are all plain
PlainChunk ==
    /\ ScannedOne /\ TypeAccepted /\ DOMAIN chunk[1].v \cap ContentKeys = {"Items"}
    /\ ItemsOf.t = "list" /\ \A k \in 1..Len(ItemsOf.v) : IsPlain(ItemsOf.v[k])

\* identity, count and slot of an extracted item, whichever scanner built it
ItemView(it) ==
    IF variant = "locator" THEN <<it.item_id, I(it.count), it.slot>>
    ELSE <<it.id, it.count, it.slot>>

\* the storage type of a record, whichever scanner built it
TypeView(rec) == IF variant = "locator" THEN rec.entity_id.v ELSE rec.entity_id

\* the items of the record are those of the plain stacks, in source order
PlainItemsExtracted ==
    /\ scan.ok /\ Len(scan.val) = 1
    /\ Len(scan.val[1].items) = Len(ItemsOf.v)
    /\ \A k \in 1..Len(ItemsOf.v) :
          ItemView(scan.val[1].items[k])
            = <<Strip(ItemsOf.v[k].v["id"].v), ItemsOf.v[k].v["Count"], ItemsOf.v[k].v["Slot"]>>

IsSimpleStack(st) ==
    /\ st.t = "map" /\ DOMAIN st.v \subseteq {"id", "Count", "count", "Slot"}
    /\ "id" \in DOMAIN st.v /\ st.v["id"].t = "str"

\* the chunk holds one chest whose stacks are simple, with any count and slot
CoercionChunk ==
    /\ ScannedOne /\ Get(chunk[1], "id") = S(MC \o W_chest)
    /\ DOMAIN chunk[1].v \cap ContentKeys = {"Items"}
    /\ ItemsOf.t = "list" /\ \A k \in 1..Len(ItemsOf.v) : IsSimpleStack(ItemsOf.v[k])

\* the count tag of a stack, None when it has none
CountTag(st) == IF "Count" \in DOMAIN st.v THEN st.v["Count"] ELSE Get(st, "count")

\* C9: for an accepted storage, a count that is missing or not convertible to an
\* integer yields count 0, a slot that is missing or not integer-typed yields an
\* absent slot, and the record of the storage is produced without an error.
C9_Coercion ==
    CoercionChunk =>
        /\ scan.ok /\ Len(scan.val) = 1
        /\ Len(scan.val[1].items) = Len(ItemsOf.v)
        /\ \A k \in 1..Len(ItemsOf.v) :
              LET st == ItemsOf.v[k]
                  view == ItemView(scan.val[1].items[k])
              IN /\ (CountTag(st).t = "none" \/ ~PyInt(CountTag(st)).ok) => view[2] = I(0)
                 /\ Get(st, "Slot").t # "int" => view[3] = None

\* the nested container the scanner sees on a stack, None when there is none
ContainerOf(st) == IF FindContainer(st).ok THEN FindContainer(st).val ELSE None

\* some list of stacks, at this level or below, holds two stacks with a nested container
RECURSIVE SiblingContainers(_)
SiblingContainers(list) ==
    \/ Cardinality({k \in 1..Len(list.v) : TagTruthy(ContainerOf(list.v[k]))}) >= 2
    \/ \E k \in 1..Len(list.v) :
          TagTruthy(ContainerOf(list.v[k])) /\ SiblingContainers(ContainerOf(list.v[k]))

\* every stack in a nested container of this list, at any depth, has an explicit slot
RECURSIVE NestedSlotted(_)
NestedSlotted(list) ==
    \A k \in 1..Len(list.v) :
        TagTruthy(ContainerOf(list.v[k])) =>
            /\ \A j \in 1..Len(ContainerOf(list.v[k]).v) :
                  Get(ContainerOf(list.v[k]).v[j], "slot").t = "int"
            /\ NestedSlotted(ContainerOf(list.v[k]))

\* the item entries of a flattened list
ItemEntries(items) == {k \in 1..Len(items) : items[k].kind = "item"}

\* C2: in the flattened item list of a storage whose stacks hold sibling nested
\* containers (all stacks with explicit slots), no two items have the same slot.
C2_SlotUnique ==
    (ScannedOne /\ variant = "anvil" /\ scan.ok /\ Len(scan.val) = 1
     /\ ItemsOf.t = "list" /\ SiblingContainers(ItemsOf) /\ NestedSlotted(ItemsOf))
        => \A a, b \in ItemEntries(scan.val[1].items) :
              a # b => scan.val[1].items[a].slot # scan.val[1].items[b].slot

\* the position among the storage's own stacks of the n-th one with a nested container
NthContainer(list, n) ==
    CHOOSE k \in 1..Len(list.v) :
        /\ TagTruthy(ContainerOf(list.v[k]))
        /\ Cardinality({j \in 1..k : TagTruthy(ContainerOf(list.v[j]))}) = n

\* how many of the storage's own stacks have a nested container
ContainerCount(list) == Cardinality({k \in 1..Len(list.v) : TagTruthy(ContainerOf(list.v[k]))})

\* the identity tag of a stack of a nested container (inside "item" when wrapped)
InnerId(st) == IF TagTruthy(Get(st, "item")) THEN Get(Get(st, "item"), "id") ELSE Get(st, "id")

\* the slots the flattened list gives to the stack of the given identity
SlotsOf(items, id) == {items[k].slot : k \in {j \in ItemEntries(items) : items[j].display_name = id}}

\* every stack directly inside the n-th nested container of the storage has the
\* slot -10000*n - inner_slot when it has an explicit slot and noslot(n) otherwise
Depth1Slots(noslot(_)) ==
    (ScannedOne /\ variant = "anvil" /\ scan.ok /\ Len(scan.val) = 1 /\ ItemsOf.t = "list")
        => \A n \in 1..ContainerCount(ItemsOf) :
              LET inner == ContainerOf(ItemsOf.v[NthContainer(ItemsOf, n)])
              IN \A j \in 1..Len(inner.v) :
                    SlotsOf(scan.val[1].items, InnerId(inner.v[j]).v)
                      = {IF Get(inner.v[j], "slot").t = "int"
                         THEN I(0 - 10000 * n - Get(inner.v[j], "slot").v)
                         ELSE I(noslot(n))}

AmendedNoSlot(n) == 0 - 1
OriginalNoSlot(n) == 0 - 10000 * n - 1

R(pos, val, ev) == [ok |-> TRUE, pos |-> pos, val |-> val, err |-> "", ev |-> ev]
Raise(e, ev) == [ok |-> FALSE, pos |-> 0, val |-> None, err |-> e, ev |-> ev]

\* lines 40-44: BytesIO.read(n) with n < 0 returns all that is left, never n bytes
read(b, pos, n) ==
    IF n >= 0 /\ pos + n <= Len(b) THEN R(pos + n, SubSeq(b, pos + 1, pos + n), {})
    ELSE Raise("EOFError", {})

\* big-endian two's complement value of four bytes
SignedInt(bs) ==
    (IF bs[1] >= 128 THEN bs[1] - 256 ELSE bs[1]) * 16777216 + bs[2] * 65536 + bs[3] * 256 + bs[4]

\* lines 45-46
read_ubyte(b, pos) ==
    LET r == read(b, pos, 1) IN IF r.ok THEN R(r.pos, r.val[1], {}) ELSE r

\* lines 47-48
read_byte(b, pos) ==
    LET r == read(b, pos, 1)
    IN IF r.ok THEN R(r.pos, IF r.val[1] >= 128 THEN r.val[1] - 256 ELSE r.val[1], {}) ELSE r

\* lines 49-50: struct.unpack(">h")
read_short(b, pos) ==
    LET r == read(b, pos, 2)
        u == r.val[1] * 256 + r.val[2]
    IN IF r.ok THEN R(r.pos, IF u >= 32768 THEN u - 65536 ELSE u, {}) ELSE r

\* lines 51-52
read_int(b, pos) ==
    LET r == read(b, pos, 4) IN IF r.ok THEN R(r.pos, SignedInt(r.val), {}) ELSE r

\* lines 53-58: a long, a float and a double are kept as the bytes that encode them
read_raw(b, pos, n, kind) ==
    LET r == read(b, pos, n) IN IF r.ok THEN R(r.pos, [t |-> kind, v |-> r.val], {}) ELSE r

\* bytes.decode("utf-8") of the bytes from index k on: the code points, or
\* <<-1>> at the front when the bytes are not valid UTF-8
RECURSIVE Utf8(_, _)
Utf8(raw, k) ==
    LET cont(j) == j <= Len(raw) /\ raw[j] >= 128 /\ raw[j] < 192
        rest(n, cp) == LET tl == Utf8(raw, k + n)
                       IN IF Len(tl) > 0 /\ tl[1] = 0 - 1 THEN tl ELSE <<cp>> \o tl
    IN IF k > Len(raw) THEN <<>>
       ELSE IF raw[k] < 128 THEN rest(1, raw[k])
       ELSE IF raw[k] >= 194 /\ raw[k] < 224 /\ cont(k + 1)
            THEN rest(2, (raw[k] - 192) * 64 + (raw[k + 1] - 128))
       ELSE IF /\ raw[k] >= 224 /\ raw[k] < 240 /\ cont(k + 1) /\ cont(k + 2)
               /\ (raw[k] = 224 => raw[k + 1] >= 160)
               /\ (raw[k] = 237 => raw[k + 1] < 160)
            THEN rest(3, (raw[k] - 224) * 4096 + (raw[k + 1] - 128) * 64 + (raw[k + 2] - 128))
       ELSE IF /\ raw[k] >= 240 /\ raw[k] < 245 /\ cont(k + 1) /\ cont(k + 2) /\ cont(k + 3)
               /\ (raw[k] = 240 => raw[k + 1] >= 144)
               /\ (raw[k] = 244 => raw[k + 1] < 144)
            THEN rest(4, (raw[k] - 240) * 262144 + (raw[k + 1] - 128) * 4096
                         + (raw[k + 2] - 128) * 64 + (raw[k + 3] - 128))
       ELSE <<0 - 1>>

\* lines 64-67: the string of the raw bytes, as its code points; latin1 maps
\* every byte to the code point of the same number
Decode(raw) ==
    LET u == Utf8(raw, 1)
    IN IF Len(u) > 0 /\ u[1] = 0 - 1 THEN raw ELSE u

\* lines 59-67
read_string(b, pos) ==
    LET ln == read_short(b, pos)
        raw == read(b, ln.pos, ln.val)
    IN IF ~ln.ok THEN ln
       ELSE IF ln.val < 0
            THEN R(ln.pos, <<>>, IF ln.val + 65536 > Len(b) - ln.pos THEN {"string_overrun"} ELSE {})
       ELSE IF ~raw.ok THEN raw
       ELSE R(raw.pos, Decode(raw.val), {})

TAG_End == 0
TAG_Byte == 1
TAG_Short == 2
TAG_Int == 3
TAG_Long == 4
TAG_Float == 5
TAG_Double == 6
TAG_Byte_Array == 7
TAG_String == 8
TAG_List == 9
TAG_Compound == 10
TAG_Int_Array == 11
TAG_Long_Array == 12

\* lines 68-102; ReadList is the loop of lines 84-85 (n payloads are still to be
\* read), ReadCompound the loop of lines 89-94 (d is the dict so far), ReadArray
\* the comprehensions of lines 98 and 101 (numbers of `width` bytes)
RECURSIVE parse_payload(_, _, _)
RECURSIVE ReadList(_, _, _, _, _, _)
RECURSIVE ReadCompound(_, _, _, _)
RECURSIVE ReadArray(_, _, _, _, _)

ReadArray(b, pos, n, width, items) ==
    IF n <= 0 THEN R(pos, L(items), {})
    ELSE LET r == IF width = 4 THEN read_int(b, pos) ELSE read_raw(b, pos, 8, "long")
         IN IF ~r.ok THEN r
            ELSE ReadArray(b, r.pos, n - 1, width,
                           Append(items, IF width = 4 THEN I(r.val) ELSE r.val))

ReadList(b, pos, inner, n, items, ev) ==
    IF n <= 0 THEN R(pos, L(items), ev)
    ELSE LET r == parse_payload(b, pos, inner)
         IN IF ~r.ok THEN Raise(r.err, ev \cup r.ev)
            ELSE ReadList(b, r.pos, inner, n - 1, Append(items, r.val), ev \cup r.ev)

ReadCompound(b, pos, d, ev) ==
    LET t == read_ubyte(b, pos)
        key == read_string(b, t.pos)
        r == parse_payload(b, key.pos, t.val)
    IN IF ~t.ok THEN Raise(t.err, ev)
       ELSE IF t.val = TAG_End THEN R(t.pos, M(d), ev)
       ELSE IF ~key.ok THEN Raise(key.err, ev)
       ELSE IF ~r.ok THEN Raise(r.err, ev \cup key.ev \cup r.ev)
       ELSE ReadCompound(b, r.pos,
                         [k \in DOMAIN d \cup {key.val} |-> IF k = key.val THEN r.val ELSE d[k]],
                         ev \cup key.ev \cup r.ev)

parse_payload(b, pos, tag_type) ==
    CASE tag_type = TAG_Byte ->
            LET r == read_byte(b, pos) IN IF r.ok THEN R(r.pos, I(r.val), {}) ELSE r
      [] tag_type = TAG_Short ->
            LET r == read_short(b, pos) IN IF r.ok THEN R(r.pos, I(r.val), {}) ELSE r
      [] tag_type = TAG_Int ->
            LET r == read_int(b, pos) IN IF r.ok THEN R(r.pos, I(r.val), {}) ELSE r
      [] tag_type = TAG_Long -> read_raw(b, pos, 8, "long")
      [] tag_type = TAG_Float -> read_raw(b, pos, 4, "float")
      [] tag_type = TAG_Double -> read_raw(b, pos, 8, "double")
      [] tag_type = TAG_Byte_Array ->
            LET length == read_int(b, pos)
                raw == read(b, length.pos, length.val)
            IN IF ~length.ok THEN length
               ELSE IF ~raw.ok THEN raw
               ELSE R(raw.pos, L([k \in 1..Len(raw.val) |-> I(raw.val[k])]), {})
      [] tag_type = TAG_String ->
            LET r == read_string(b, pos) IN IF r.ok THEN R(r.pos, S(r.val), r.ev) ELSE r
      [] tag_type = TAG_List ->
            LET inner == read_ubyte(b, pos)
                length == read_int(b, inner.pos)
            IN IF ~inner.ok THEN inner
               ELSE IF ~length.ok THEN length
               ELSE ReadList(b, length.pos, inner.val, length.val, <<>>,
                             IF inner.val > TAG_Long_Array THEN {"bad_type"} ELSE {})
      [] tag_type = TAG_Compound -> ReadCompound(b, pos, EmptyMap, {})
      [] tag_type = TAG_Int_Array ->
            LET length == read_int(b, pos)
            IN IF ~length.ok THEN length ELSE ReadArray(b, length.pos, length.val, 4, <<>>)
      [] tag_type = TAG_Long_Array ->
            LET length == read_int(b, pos)
            IN IF ~length.ok THEN length ELSE ReadArray(b, length.pos, length.val, 8, <<>>)
      [] OTHER -> Raise("ValueError", {"bad_type"})

\* lines 103-108
parse_root(b) ==
    LET t == read_ubyte(b, 0)
        name == read_string(b, t.pos)
        r == parse_payload(b, name.pos, TAG_Compound)
    IN IF ~t.ok THEN t
       ELSE IF t.val # TAG_Compound THEN Raise("ValueError", {})
       ELSE IF ~name.ok THEN name
       ELSE IF ~r.ok THEN r
       ELSE R(r.pos, r.val, name.ev \cup r.ev)

(***************************************************************************)
(* Decoder inputs: a few documents written out byte by byte, every prefix  *)
(* of each (a truncation at every field) and every single-byte patch of    *)
(* each (type bytes, lengths and the root byte changed in place).          *)
(***************************************************************************)
Named(type, name, payload) == <<type, 0, Len(name)>> \o name \o payload
Root(name, body) == <<TAG_Compound, 0, Len(name)>> \o name \o body \o <<TAG_End>>

DocEmpty == Root(<<>>, <<>>)
DocScalars ==
    Root(<<97, 98>>, Named(TAG_Byte, <<98>>, <<133>>) \o Named(TAG_Short, <<115>>, <<1, 2>>)
                     \o Named(TAG_Int, <<105>>, <<255, 255, 255, 254>>))
DocWide ==
    Root(<<>>, Named(TAG_Long, <<108>>, <<0, 0, 0, 1, 0, 0, 0, 2>>)
               \o Named(TAG_Float, <<102>>, <<63, 128, 0, 0>>)
               \o Named(TAG_Double, <<100>>, <<64, 0, 0, 0, 0, 0, 0, 0>>))
DocArrays ==
    Root(<<>>, Named(TAG_Byte_Array, <<97>>, <<0, 0, 0, 2, 200, 7>>)
               \o Named(TAG_Int_Array, <<105>>, <<0, 0, 0, 1, 0, 0, 1, 0>>)
               \o Named(TAG_Long_Array, <<103>>, <<0, 0, 0, 1, 0, 0, 0, 0, 0, 0, 0, 9>>))
DocStrings ==
    Root(<<>>, Named(TAG_String, <<115>>, <<0, 2, 104, 105>>)
               \o Named(TAG_String, <<117>>, <<0, 2, 195, 169>>)
               \o Named(TAG_String, <<120>>, <<0, 1, 233>>))
DocLists ==
    Root(<<>>, Named(TAG_List, <<101>>, <<TAG_End, 0, 0, 0, 0>>)
               \o Named(TAG_List, <<99>>, <<TAG_Compound, 0, 0, 0, 2>>
                                          \o Named(TAG_Byte, <<120>>, <<1>>) \o <<TAG_End, TAG_End>>)
               \o Named(TAG_Compound, <<110>>,
                        Named(TAG_List, <<116>>, <<TAG_String, 0, 0, 0, 1, 0, 1, 122>>)
                        \o <<TAG_End>>))
Docs == {DocEmpty, DocScalars, DocWide, DocArrays, DocStrings, DocLists}
Patches == {0, 1, 9, 10, 13, 128, 255}

NotParsed == [ok |-> FALSE, val |-> None, err |-> "idle", ev |-> {}]
NotRead == [ok |-> FALSE, pos |-> 0, val |-> <<>>, err |-> "idle"]
Parsed(r) == [ok |-> r.ok, val |-> r.val, err |-> r.err, ev |-> r.ev]

InitDecoder ==
    /\ \E d \in Docs :
          \/ \E n \in 0..Len(d) : buf = SubSeq(d, 1, n)
          \/ \E k \in 1..Len(d), p \in Patches : buf = [d EXCEPT ![k] = p]
    /\ nbt = NotParsed
    /\ sread = NotRead
    /\ IdleExtract /\ IdleRegion /\ IdleAdapter /\ IdleDb /\ IdleFile

\* lines 148-149: reader = NBTReader(decompressed); nbt = reader.parse_root()
ParseRoot ==
    /\ nbt = NotParsed
    /\ nbt' = Parsed(parse_root(buf))
    /\ UNCHANGED <<buf, sread, extractVars, regionVars, adapterVars, dbVars, fileVars>>

NextDecoder == ParseRoot
SpecDecoder == InitDecoder /\ [][NextDecoder]_vars

\* C8: decoding returns a root mapping or fails; it returns nothing when the
\* first byte is not the mapping type, when a type byte outside 0..12 was met,
\* or when a field (here a string) is declared longer than the bytes left.
C8_DecoderFailure ==
    (nbt # NotParsed /\ nbt.ok) =>
        /\ nbt.val.t = "map"
        /\ buf[1] = TAG_Compound
        /\ "bad_type" \notin nbt.ev
        /\ "string_overrun" \notin nbt.ev

(***************************************************************************)
(* chest_locator.py: read_region_file                                      *)
(* The file is its header length and, per slot, what the reads of the loop *)
(* body find there: the sector offset of the header entry, how many of the *)
(* four length bytes the file still has, the length, the compression byte  *)
(* (a sequence, empty at the end of the file), and the payload, which is   *)
(* the stream format it was written in and the bytes it decompresses to.   *)
(* `class` is what the slot was built to be; the reader never looks at it. *)
(***************************************************************************)
NumSlots == 3
HeaderSize == 8192

Slot(class, sector_off, length_bytes, length, comp_type_b, fmt, data) ==
    [class |-> class, sector_off |-> sector_off, length_bytes |-> length_bytes,
     length |-> length, comp_type_b |-> comp_type_b, fmt |-> fmt, data |-> data]

TruncatedDoc == SubSeq(DocScalars, 1, 7)
WrongRootDoc == [DocEmpty EXCEPT ![1] = TAG_List]

SlotChoices ==
    { Slot("absent", 0, 0, 0, <<>>, "none", <<>>),
      Slot("short length", 2, 3, 0, <<>>, "none", <<>>),
      Slot("zero length", 2, 4, 0, <<>>, "none", <<>>),
      Slot("no compression byte", 2, 4, 5, <<>>, "none", <<>>),
      Slot("unknown compression", 2, 4, 5, <<3>>, "zlib", DocScalars),
      Slot("decompression failure", 2, 4, 5, <<1>>, "zlib", DocScalars),
      Slot("decompression failure", 2, 4, 5, <<2>>, "garbage", <<>>),
      Slot("decode failure", 2, 4, 5, <<2>>, "zlib", TruncatedDoc),
      Slot("decode failure", 2, 4, 5, <<1>>, "gzip", WrongRootDoc),
      Slot("good", 2, 4, 5, <<1>>, "gzip", DocScalars),
      Slot("good", 2, 4, 5, <<2>>, "zlib", DocLists) }

\* a variant of Decompress that takes any stream for the tagged format
M_Decompress(comp_type, fmt, data) == [ok |-> fmt # "none", val |-> data]

\* lines 137-140: gzip.decompress takes a gzip stream, zlib.decompress a zlib
\* stream, and each raises on anything else
Decompress(comp_type, fmt, data) ==
    IF (comp_type = 1 /\ fmt = "gzip") \/ (comp_type = 2 /\ fmt = "zlib")
    THEN [ok |-> TRUE, val |-> data]
    ELSE [ok |-> FALSE, val |-> <<>>]

\* lines 123-153: the body of the loop for one header entry; Continue for
\* every way of leaving the iteration without a result
Continue == [kind |-> "continue", nbt |-> None]

\* lines 147-153
ParseChunk(parsed) ==
    IF ~parsed.ok THEN Continue ELSE [kind |-> "append", nbt |-> parsed.val]

\* lines 144-146
Decompressed(decompressed) ==
    IF ~decompressed.ok THEN Continue ELSE ParseChunk(parse_root(decompressed.val))

read_slot(e) ==
    IF e.sector_off = 0 THEN Continue
    ELSE IF e.length_bytes < 4 THEN Continue
    ELSE IF e.length = 0 THEN Continue
    ELSE IF e.comp_type_b = <<>> THEN Continue
    ELSE IF e.comp_type_b[1] \notin {1, 2} THEN Continue
    ELSE Decompressed(Decompress(e.comp_type_b[1], e.fmt, e.data))

InitRegion ==
    /\ header \in {HeaderSize \div 2, HeaderSize}
    /\ slots \in [1..NumSlots -> SlotChoices]
    /\ chunk_i = 0
    /\ results = <<>>
    /\ rpc = "open"
    /\ IdleExtract /\ IdleDecoder /\ IdleAdapter /\ IdleDb /\ IdleFile

\* lines 116-120
ReadHeader ==
    /\ rpc = "open"
    /\ rpc' = IF header < HeaderSize THEN "done" ELSE "loop"
    /\ UNCHANGED <<header, slots, chunk_i, results>>
    /\ UNCHANGED <<extractVars, decoderVars, adapterVars, dbVars, fileVars>>

\* lines 122-153: one iteration; the model's index counts from 0 as enumerate does
SlotStep ==
    /\ rpc = "loop"
    /\ chunk_i < NumSlots
    /\ \E out \in {read_slot(slots[chunk_i + 1])} :
          results' = IF out.kind = "append"
                     THEN Append(results, [chunk_index |-> chunk_i, nbt |-> out.nbt])
                     ELSE results
    /\ chunk_i' = chunk_i + 1
    /\ UNCHANGED <<header, slots, rpc>>
    /\ UNCHANGED <<extractVars, decoderVars, adapterVars, dbVars, fileVars>>

\* line 155
ReturnResults ==
    /\ rpc = "loop"
    /\ chunk_i = NumSlots
    /\ rpc' = "done"
    /\ UNCHANGED <<header, slots, chunk_i, results>>
    /\ UNCHANGED <<extractVars, decoderVars, adapterVars, dbVars, fileVars>>

NextRegion == ReadHeader \/ SlotStep \/ ReturnResults
SpecRegion == InitRegion /\ [][NextRegion]_vars

\* the result the good slots among the first n ask for, in slot order
RECURSIVE GoodBefore(_)
GoodBefore(n) ==
    IF n = 0 THEN <<>>
    ELSE IF slots[n].class = "good"
         THEN Append(GoodBefore(n - 1),
                     [chunk_index |-> n - 1, nbt |-> parse_root(slots[n].data).val])
         ELSE GoodBefore(n - 1)

\* C5: with a full header, whatever the slots hold, the result after any
\* number of slots is exactly the good ones among them, each once and in
\* increasing index order, and the call returns only after the last slot.
C5_FailureIsolation ==
    header = HeaderSize =>
        /\ results = GoodBefore(chunk_i)
        /\ rpc = "done" => chunk_i = NumSlots

\* a good slot after a decompression failure and a decode failure is returned
C5_Witness ==
    /\ rpc = "done" /\ header = HeaderSize
    /\ slots[1].class = "decompression failure"
    /\ slots[2].class = "decode failure"
    /\ slots[NumSlots].class = "good"
    /\ Len(results) = 1 /\ results[1].chunk_index = NumSlots - 1

(***************************************************************************)
(* chest_locator.py: get_block_entities_from_chunk_nbt                     *)
(***************************************************************************)
BlockEntityKeys == <<"BlockEntities", "block_entities", "TileEntities">>

\* lines 161-163: the value of the first of the keys, from index k on, that
\* is in `level` and is a list
RECURSIVE FirstList(_, _)
FirstList(level, k) ==
    IF k > Len(BlockEntityKeys) THEN <<>>
    ELSE IF BlockEntityKeys[k] \in DOMAIN level.v /\ level.v[BlockEntityKeys[k]].t = "list"
         THEN level.v[BlockEntityKeys[k]].v
         ELSE FirstList(level, k + 1)

\* lines 158-164
get_block_entities_from_chunk_nbt(root) ==
    LET level == PyOr(PyOr(Get(root, "Level"), Get(root, "level")), root)
    IN FirstList(level, 1)

\* Adapter inputs: a holder has each of the three keys absent, a list of one
\* block entity, or a number; the list says where it stands, so that the
\* result tells which holder and which key it came from.
Marked(where, key) == L(<<M([id |-> S(<<where, key>>)])>>)
KeyForms == {"absent", "list", "number"}
Holder(where, forms) ==
    LET present == {k \in 1..Len(BlockEntityKeys) : forms[k] # "absent"}
    IN M([key \in {BlockEntityKeys[k] : k \in present} |->
            LET k == CHOOSE j \in present : BlockEntityKeys[j] = key
            IN IF forms[k] = "list" THEN Marked(where, key) ELSE I(7)])
HolderForms == [1..Len(BlockEntityKeys) -> KeyForms]
NestedHolderForms ==
    {f \in HolderForms : \A k \in 1..Len(BlockEntityKeys) : f[k] # "number" \/ k = 1}
WithKey(m, key, present, val) ==
    IF present
    THEN M([k \in DOMAIN m.v \cup {key} |-> IF k = key THEN val ELSE m.v[k]])
    ELSE m

InitAdapter ==
    /\ \E rf \in HolderForms, hasU \in BOOLEAN, hasL \in BOOLEAN,
          uf \in NestedHolderForms, lf \in NestedHolderForms :
          /\ (~hasU => uf = [k \in 1..Len(BlockEntityKeys) |-> "absent"])
          /\ (~hasL => lf = [k \in 1..Len(BlockEntityKeys) |-> "absent"])
          /\ doc = WithKey(WithKey(Holder("root", rf), "Level", hasU, Holder("Level", uf)),
                           "level", hasL, Holder("level", lf))
    /\ block_entities = <<>>
    /\ apc = "call"
    /\ IdleExtract /\ IdleRegion /\ IdleDecoder /\ IdleDb /\ IdleFile

\* line 295: bes = get_block_entities_from_chunk_nbt(root)
GetBlockEntities ==
    /\ apc = "call"
    /\ block_entities' = get_block_entities_from_chunk_nbt(doc)
    /\ apc' = "done"
    /\ UNCHANGED <<doc, extractVars, regionVars, decoderVars, dbVars, fileVars>>

NextAdapter == GetBlockEntities
SpecAdapter == InitAdapter /\ [][NextAdapter]_vars

\* the holder and the result as the contract words them
ContractHolder ==
    IF "Level" \in DOMAIN doc.v THEN doc.v["Level"]
    ELSE IF "level" \in DOMAIN doc.v THEN doc.v["level"]
    ELSE doc

\* C7: the holder is the sub-mapping under Level or level when such a key is
\* present, empty or not, and the root only when neither is; the result is the
\* first list-valued key of the holder among BlockEntities, block_entities,
\* TileEntities, and the empty list when there is none.
C7_Adapter == apc = "done" => block_entities = FirstList(ContractHolder, 1)

(***************************************************************************)
(* chest_locator.py: upsert_storage_and_items;                             *)
(* anvil_parser.py: clear_tables, bulk_insert_storage                      *)
(* The table storages is a set of rows with a unique (x, y, z), which the  *)
(* ON CONFLICT clauses require, and a storage_id drawn from the table's    *)
(* identity sequence next_id; storage_items is the list of its rows in     *)
(* insertion order. first_id and last_items are history: per coordinate,   *)
(* the storage_id of its first row ever and the item rows its most recent  *)
(* extraction asks for.                                                    *)
(***************************************************************************)
MaxCoords == 2
MaxId == 3

Coords == 1..MaxCoords
Pos(c) == [x |-> c, y |-> 64, z |-> 0 - c]
EntityIds == {"minecraft:chest", "minecraft:barrel"}

LocatorItemLists ==
    LET d == [slot |-> 0, item_id |-> "diamond", count |-> 1]
        st == [slot |-> 1, item_id |-> "stone", count |-> 64]
    IN {<<>>, <<d>>, <<d, st>>, <<d, d>>}
AnvilItemLists ==
    LET d == [kind |-> "item", id |-> "diamond", count |-> 1, slot |-> 0]
        st == [kind |-> "item", id |-> "stone", count |-> 64, slot |-> 1]
        none == [kind |-> "None", id |-> "", count |-> 0, slot |-> 0]
    IN {<<>>, <<d>>, <<d, none, st>>}

Normalized(c, entity_id, items) ==
    [x |-> Pos(c).x, y |-> Pos(c).y, z |-> Pos(c).z, entity_id |-> entity_id, items |-> items]

\* the rows of storages at the coordinate of s
Conflict(rows, s) == {r \in rows : r.x = s.x /\ r.y = s.y /\ r.z = s.z}
StorageRow(storage_id, s) ==
    [storage_id |-> storage_id, x |-> s.x, y |-> s.y, z |-> s.z, entity_id |-> s.entity_id]

\* chest_locator.py lines 271-282: one INSERT INTO storage_items per item
LocatorItemRows(storage_id, items) ==
    [k \in 1..Len(items) |-> [storage_id |-> storage_id, slot |-> items[k].slot,
                              item_id |-> items[k].item_id, count |-> items[k].count]]

\* chest_locator.py lines 246-283. The default of storage_id is taken from the
\* sequence before the conflict is seen, so an update uses a number up too.
upsert_storage_and_items(rows, item_rows, nid, normalized) ==
    LET old == Conflict(rows, normalized)
        storage_id == IF old = {} THEN nid ELSE (CHOOSE r \in old : TRUE).storage_id
        kept == SelectSeq(item_rows, LAMBDA r : r.storage_id # storage_id)
    IN [storages |-> (rows \ old) \cup {StorageRow(storage_id, normalized)},
        storage_items |-> kept \o LocatorItemRows(storage_id, normalized.items),
        next_id |-> nid + 1,
        storage_id |-> storage_id]

\* anvil_parser.py lines 193-200: INSERT ... ON CONFLICT (x, y, z) DO NOTHING
\* for the records of all_storage_data from the k-th on
RECURSIVE InsertStorages(_, _, _, _)
InsertStorages(all_storage_data, k, rows, nid) ==
    IF k > Len(all_storage_data) THEN [storages |-> rows, next_id |-> nid]
    ELSE IF Conflict(rows, all_storage_data[k]) # {}
         THEN InsertStorages(all_storage_data, k + 1, rows, nid + 1)
         ELSE InsertStorages(all_storage_data, k + 1,
                             rows \cup {StorageRow(nid, all_storage_data[k])}, nid + 1)

\* anvil_parser.py lines 211-224: the rows of one record's items
RECURSIVE AnvilItemRows(_, _, _)
AnvilItemRows(storage_id, items, k) ==
    IF k > Len(items) THEN <<>>
    ELSE IF items[k].kind = "None" THEN AnvilItemRows(storage_id, items, k + 1)
    ELSE <<[storage_id |-> storage_id, slot |-> items[k].slot,
            item_id |-> items[k].id, count |-> items[k].count]>>
         \o AnvilItemRows(storage_id, items, k + 1)

\* anvil_parser.py lines 203-229
RECURSIVE InsertItems(_, _, _)
InsertItems(all_storage_data, k, rows) ==
    IF k > Len(all_storage_data) THEN <<>>
    ELSE LET storage_id == (CHOOSE r \in Conflict(rows, all_storage_data[k]) : TRUE).storage_id
         IN AnvilItemRows(storage_id, all_storage_data[k].items, 1)
            \o InsertItems(all_storage_data, k + 1, rows)

\* anvil_parser.py lines 175-233
bulk_insert_storage(rows, item_rows, nid, all_storage_data) ==
    LET ins == InsertStorages(all_storage_data, 1, rows, nid)
    IN [storages |-> ins.storages,
        storage_items |-> item_rows \o InsertItems(all_storage_data, 1, ins.storages),
        next_id |-> ins.next_id]

\* history: what the extraction of s leaves on record for its coordinate
ItemsAsked(item_rows) ==
    [k \in 1..Len(item_rows) |-> [slot |-> item_rows[k].slot, item_id |-> item_rows[k].item_id,
                                  count |-> item_rows[k].count]]
IdAt(rows, c) == (CHOOSE r \in Conflict(rows, Pos(c)) : TRUE).storage_id

\* one run of anvil_parser.py finds the storages the world has at that time,
\* in the order of their region files and chunks: here the order of Coords
RECURSIVE Snapshot(_, _)
Snapshot(world, c) ==
    IF c > MaxCoords THEN <<>>
    ELSE (IF world[c].there THEN <<Normalized(c, world[c].entity_id, world[c].items)>> ELSE <<>>)
         \o Snapshot(world, c + 1)
Worlds ==
    [Coords -> [there : {TRUE}, entity_id : EntityIds, items : AnvilItemLists]
               \cup {[there |-> FALSE, entity_id |-> "", items |-> <<>>]}]

InitDb ==
    /\ storages = {} /\ storage_items = <<>> /\ next_id = 1
    /\ dbpc \in {"locator", "anvil"}
    /\ first_id = [c \in Coords |-> 0]
    /\ last_items = [c \in Coords |-> <<>>]
    /\ IdleExtract /\ IdleRegion /\ IdleDecoder /\ IdleAdapter /\ IdleFile

\* chest_locator.py lines 301-306: a successful upsert, committed
Upsert ==
    /\ dbpc = "locator"
    /\ next_id <= MaxId
    /\ \E c \in Coords, e \in EntityIds, items \in LocatorItemLists :
          LET db == upsert_storage_and_items(storages, storage_items, next_id,
                                             Normalized(c, e, items))
          IN /\ storages' = db.storages
             /\ storage_items' = db.storage_items
             /\ next_id' = db.next_id
             /\ first_id' = IF first_id[c] = 0 THEN [first_id EXCEPT ![c] = db.storage_id]
                            ELSE first_id
             /\ last_items' = [last_items EXCEPT ![c] = ItemsAsked(LocatorItemRows(0, items))]
    /\ UNCHANGED <<dbpc, extractVars, regionVars, decoderVars, adapterVars, fileVars>>

\* anvil_parser.py lines 168-173 (main, line 247)
ClearTables ==
    /\ dbpc = "anvil"
    /\ storages' = {} /\ storage_items' = <<>> /\ next_id' = 1
    /\ dbpc' = "cleared"
    /\ UNCHANGED <<first_id, last_items, extractVars, regionVars, decoderVars, adapterVars, fileVars>>

\* anvil_parser.py lines 175-233 (main, line 248)
BulkInsert ==
    /\ dbpc = "cleared"
    /\ \E world \in Worlds :
          LET db == bulk_insert_storage(storages, storage_items, next_id, Snapshot(world, 1))
          IN /\ storages' = db.storages
             /\ storage_items' = db.storage_items
             /\ next_id' = db.next_id
             /\ first_id' = [c \in Coords |->
                               IF first_id[c] = 0 /\ world[c].there
                               THEN IdAt(db.storages, c) ELSE first_id[c]]
             /\ last_items' = [c \in Coords |->
                               IF world[c].there
                               THEN ItemsAsked(AnvilItemRows(0, world[c].items, 1))
                               ELSE last_items[c]]
    /\ dbpc' = "anvil"
    /\ UNCHANGED <<extractVars, regionVars, decoderVars, adapterVars, fileVars>>

NextDb == Upsert \/ ClearTables \/ BulkInsert
SpecDb == InitDb /\ [][NextDb]_vars

\* the item rows stored for a storage, without the storage_id
StoredItems(storage_id) ==
    ItemsAsked(SelectSeq(storage_items, LAMBDA r : r.storage_id = storage_id))

\* C10: after any sequence of successful extractions, through the upsert or
\* through clear_tables followed by bulk_insert_storage, there is at most one
\* storage row per (x, y, z), its item rows are exactly the items of the most
\* recent extraction of that coordinate, and its storage_id is the one first
\* assigned to the coordinate.
C10_FullReplace ==
    dbpc \in {"locator", "anvil"} =>
        /\ \A r1, r2 \in storages :
              (r1.x = r2.x /\ r1.y = r2.y /\ r1.z = r2.z) => r1 = r2
        /\ \A c \in Coords : \A r \in Conflict(storages, Pos(c)) :
              /\ StoredItems(r.storage_id) = last_items[c]
              /\ r.storage_id = first_id[c]

\* the number of item stacks of a list at all nesting depths
RECURSIVE TotalStacks(_)
TotalStacks(list) ==
    IF list.t # "list" \/ Len(list.v) = 0 THEN 0
    ELSE LET last == list.v[Len(list.v)]
         IN TotalStacks(L(SubSeq(list.v, 1, Len(list.v) - 1))) + 1
            + (IF TagTruthy(ContainerOf(last)) THEN TotalStacks(ContainerOf(last)) ELSE 0)

\* C11: every element of a storage record's flattened item list is an item
\* record, and the list has as many elements as there are item stacks at all
\* nesting depths: no empty or null entry is appended.
C11_OnlyItems ==
    (ScannedOne /\ variant = "anvil" /\ scan.ok /\ Len(scan.val) = 1 /\ ItemsOf.t = "list")
        => /\ \A k \in 1..Len(scan.val[1].items) : scan.val[1].items[k].kind = "item"
           /\ Len(scan.val[1].items) = TotalStacks(ItemsOf)

(***************************************************************************)
(* chest_locator.py: NBTReader.read_string on its own                      *)
(* The buffer is a two-byte length, the bytes of the string and what       *)
(* follows it. Short strings run over bytes that are ASCII, a two-byte     *)
(* UTF-8 character, or no UTF-8 at all; long ones, of 32768 bytes and      *)
(* more, are one ASCII byte repeated.                                      *)
(***************************************************************************)
MaxStr == 3

StrBytes == {97, 195, 169, 233}
Filler(n) == [k \in 1..n |-> 97]
LongLengths == {32768, 65535}
Prefixed(declared, bytes) == <<declared \div 256, declared % 256>> \o bytes

InitString ==
    /\ \/ \E n \in 0..MaxStr, extra \in 0..1 : \E bytes \in [1..n -> StrBytes] :
             \E declared \in {n, n + extra} : buf = Prefixed(declared, bytes)
       \/ \E n \in 0..MaxStr : \E bytes \in [1..n -> StrBytes] :
             buf = Prefixed(n, bytes) \o <<TAG_End>>
       \/ \E n \in LongLengths, short \in 0..1 : buf = Prefixed(n, Filler(n - short))
       \/ \E n \in 0..1 : buf = Filler(n)
    /\ sread = NotRead
    /\ nbt = NotParsed
    /\ IdleExtract /\ IdleRegion /\ IdleAdapter /\ IdleDb /\ IdleFile

\* lines 59-67, called on a reader that stands at the start of buf
ReadString ==
    /\ sread = NotRead
    /\ \E r \in {read_string(buf, 0)} :
          sread' = [ok |-> r.ok, pos |-> IF r.ok THEN r.pos ELSE 0,
                    val |-> IF r.ok THEN r.val ELSE <<>>, err |-> r.err]
    /\ UNCHANGED <<buf, nbt, extractVars, regionVars, adapterVars, dbVars, fileVars>>

NextString == ReadString
SpecString == InitString /\ [][NextString]_vars

\* the length the first two bytes declare, read as an unsigned 16-bit number
Declared == buf[1] * 256 + buf[2]

\* the decoding of the declared bytes: ASCII bytes are their own code points
DeclaredString ==
    LET raw == SubSeq(buf, 3, 2 + Declared)
    IN IF \A k \in 1..Len(raw) : raw[k] < 128 THEN raw ELSE Decode(raw)

\* C12: for every declared length L in 0..65535 with at least L bytes left,
\* read_string consumes exactly 2 + L bytes and returns the decoding of those
\* L bytes (one character per byte when they are not valid UTF-8), also for
\* L in 32768..65535.
C12_UnsignedLength ==
    (sread # NotRead /\ Len(buf) >= 2 /\ Len(buf) - 2 >= Declared) =>
        /\ sread.ok
        /\ sread.pos = 2 + Declared
        /\ sread.val = DeclaredString

(***************************************************************************)
(* chest_locator.py: process_region_file, one transaction per region file  *)
(* The connection is opened without autocommit, so every statement since   *)
(* the last commit belongs to one transaction: storages and storage_items  *)
(* are the tables as the connection sees them, `committed` the tables as   *)
(* of the last commit, and conn.rollback() goes back to those. The         *)
(* identity sequence is outside the transaction and keeps its value.       *)
(* Whether an upsert raises is decided by the database; here it is part    *)
(* of the input.                                                           *)
(***************************************************************************)
FileStorages ==
    [Coords -> [there : {TRUE}, entity_id : EntityIds, items : LocatorItemLists,
                raises : BOOLEAN]
               \cup {[there |-> FALSE, entity_id |-> "", items |-> <<>>, raises |-> FALSE]}]

\* lines 290-299: the storages a region file yields, in chunk order, each with
\* the outcome of its upsert
RECURSIVE Pending(_, _)
Pending(world, c) ==
    IF c > MaxCoords THEN <<>>
    ELSE (IF world[c].there
          THEN <<[normalized |-> Normalized(c, world[c].entity_id, world[c].items),
                  raises |-> world[c].raises]>>
          ELSE <<>>)
         \o Pending(world, c + 1)

InitFile ==
    /\ \E world \in FileStorages : pending = Pending(world, 1)
    /\ file_k = 1
    /\ count_saved = 0
    /\ committed = [storages |-> {}, storage_items |-> <<>>]
    /\ fpc = "loop"
    /\ storages = {} /\ storage_items = <<>> /\ next_id = 1
    /\ dbpc = "locator"
    /\ first_id = [c \in Coords |-> 0]
    /\ last_items = [c \in Coords |-> <<>>]
    /\ IdleExtract /\ IdleRegion /\ IdleDecoder /\ IdleAdapter

\* lines 300-302: the upsert returns
UpsertReturns ==
    /\ fpc = "loop" /\ file_k <= Len(pending)
    /\ ~pending[file_k].raises
    /\ \E db \in {upsert_storage_and_items(storages, storage_items, next_id,
                                           pending[file_k].normalized)} :
          /\ storages' = db.storages
          /\ storage_items' = db.storage_items
          /\ next_id' = db.next_id
    /\ count_saved' = count_saved + 1
    /\ file_k' = file_k + 1
    /\ UNCHANGED <<pending, committed, fpc, dbpc, first_id, last_items>>
    /\ UNCHANGED <<extractVars, regionVars, decoderVars, adapterVars>>

\* lines 303-305: the upsert raises and the transaction is rolled back; the
\* statement that failed may or may not have drawn from the sequence
UpsertRaises ==
    /\ fpc = "loop" /\ file_k <= Len(pending)
    /\ pending[file_k].raises
    /\ storages' = committed.storages
    /\ storage_items' = committed.storage_items
    /\ next_id' \in {next_id, next_id + 1}
    /\ file_k' = file_k + 1
    /\ UNCHANGED <<pending, count_saved, committed, fpc, dbpc, first_id, last_items>>
    /\ UNCHANGED <<extractVars, regionVars, decoderVars, adapterVars>>

\* lines 306-308: conn.commit() and return count_saved
CommitFile ==
    /\ fpc = "loop" /\ file_k > Len(pending)
    /\ committed' = [storages |-> storages, storage_items |-> storage_items]
    /\ fpc' = "done"
    /\ UNCHANGED <<pending, file_k, count_saved, dbVars>>
    /\ UNCHANGED <<extractVars, regionVars, decoderVars, adapterVars>>

NextFile == UpsertReturns \/ UpsertRaises \/ CommitFile
SpecFile == InitFile /\ [][NextFile]_vars

\* the storages of the file that have a row after the final commit
PresentStorages ==
    {k \in 1..Len(pending) : Conflict(committed.storages, pending[k].normalized) # {}}

\* C13: when process_region_file has returned, count_saved is the number of
\* storages of the file whose rows are present after the final commit, whichever
\* upserts raised.
C13_SavedCount == fpc = "done" => count_saved = Cardinality(PresentStorages)

====
